---- MODULE Spec2Model ----
(***************************************************************************)
(* Model of the microloan marketplace front end: the loan funding flow     *)
(* (handleFundLoan, fundLoanWithRLUSD[Universal], fundLoanWithXRP          *)
(* [Universal], the signer paths, updateLoanFunding) over the hosted loan  *)
(* table and the ledger, and the trust score calculator                    *)
(* (calculateTrustScore).                                                  *)
(*                                                                         *)
(* Amounts are modelled at whole-unit granularity.  A transaction hash is  *)
(* modelled by its shape (length, hexadecimal or not) and the index of the *)
(* ledger transaction it identifies.                                       *)
(***************************************************************************)
EXTENDS Integers, Sequences, FiniteSets, TLC

\* ------------------------------------------------------------------ bounds
\* handleFundLoan invocations, all lenders together
MaxCalls == 2
\* payments the extension holds after a local timeout
MaxInflight == 1
\* longest transaction history of an account
MaxHistory == 120
\* largest account sequence number
MaxSequence == 300
\* largest transaction count the points expression is applied to
MaxCount == 1000
\* submits of the loan form
MaxSubmits == 1
\* longest sampled memo text
MaxLen == 3

\* transactions of interest in a history searched for an identity claim
MaxDIDTxs == 3

\* ------------------------------------------------------- program constants
\* Index.tsx: const fundingAmount = 100
FixedFundingAmount == 100
\* part_005: Math.min(1, loan.amount - loan.fundedAmount)
UnitFundingAmount == 1
\* requested amounts a borrower enters (CreateLoanForm accepts 1..50000)
LoanAmounts == {1, 2, 150}

Lenders == {"A", "B"}

Min(a, b) == IF a < b THEN a ELSE b

\* --------------------------------------------------------------- strings
\* a 64 character hexadecimal transaction hash naming ledger transaction n
TxHash(n) == [len |-> 64, hex |-> TRUE, tx |-> n]
\* '' (response.result.hash || '')
EmptyString == [len |-> 0, hex |-> TRUE, tx |-> 0]
\* 'TRANSACTION_SUCCEEDED_BUT_HASH_UNKNOWN'
HASH_UNKNOWN == [len |-> 38, hex |-> FALSE, tx |-> 0]

\* ------------------------------------------------------------ loan record
\* DBLoan, restricted to the fields the funding flow reads or writes
NoLoan == [amount |-> 0, funded_amount |-> 0, status |-> "none", tx_hash |-> EmptyString]

\* XRPLWallet: seed '' for extension sessions, callbacks optional
SeedWallet == [seed |-> "sValid", callbacks |-> FALSE]
CallbackWallet == [seed |-> "", callbacks |-> TRUE]
GlobalWallet == [seed |-> "", callbacks |-> FALSE]
NoWallet == [seed |-> "null", callbacks |-> FALSE]
Wallets == {SeedWallet, CallbackWallet, GlobalWallet}

\* the two versions of the page component that define handleFundLoan
Versions == {"Index", "part_005"}

\* Text is a sequence of character codes, hexadecimal text a sequence of
\* digit values 0..15 (parseInt reads either letter case, so toUpperCase
\* changes nothing a digit value records).  The model's texts are ASCII.
\* stringToHex: two digits per byte
stringToHex(str) ==
    [i \in 1..(2 * Len(str)) |->
        IF i % 2 = 1 THEN str[(i + 1) \div 2] \div 16 ELSE str[i \div 2] % 16]

\* TextDecoder on one byte: an ASCII byte is its character, any other byte
\* of the model has no valid continuation and becomes U+FFFD
DecodeByte(b) == IF b < 128 THEN b ELSE 65533

\* a decoder that reads one digit per byte
hexToStringByDigit(hex) == [i \in 1..Len(hex) |-> DecodeByte(hex[i])]

\* hexToString: chunks of two digits (the last chunk may have one), each
\* read by parseInt(.., 16), then decoded
hexToString(hex) ==
    [i \in 1..((Len(hex) + 1) \div 2) |->
        DecodeByte(IF 2 * i <= Len(hex) THEN 16 * hex[2 * i - 1] + hex[2 * i]
                   ELSE hex[2 * i - 1])]

\* 'DID_VERIFICATION'
DID_VERIFICATION == <<68, 73, 68, 95, 86, 69, 82, 73, 70, 73, 67, 65, 84, 73, 79, 78>>
\* 'LOAN_FUNDING_XRP'
LOAN_FUNDING_XRP == <<76, 79, 65, 78, 95, 70, 85, 78, 68, 73, 78, 71, 95, 88, 82, 80>>
\* 'microlend.did'
MICROLEND_DID == <<109, 105, 99, 114, 111, 108, 101, 110, 100, 46, 100, 105, 100>>
\* 'example.com'
EXAMPLE_COM == <<101, 120, 97, 109, 112, 108, 101, 46, 99, 111, 109>>

\* Payment memo tags (MemoType)
MemoOf(a) == IF a = "RLUSD" THEN "LOAN_FUNDING_RLUSD" ELSE "LOAN_FUNDING_XRP"

\* the extension method names, in the order the signer flows try them
methods == <<"signAndSubmitAndWait", "submitAndWait", "submit">>

VARIABLES
    db,             \* the loan row in the hosted table (NoLoan before insert)
    ledger,         \* validated payments, oldest first
    inflight,       \* payments handed to the extension, not yet validated
    borrowerLine,   \* the borrower has the RLUSD trust line
    connected,      \* per lender: client.isConnected()
    userWallet,     \* per lender: the session
    version,        \* per lender: which page version runs
    loans,          \* per lender: the UI copy of the loan row
    fund,           \* per lender: the activation of handleFundLoan
    calls,          \* number of handleFundLoan invocations so far
    account,        \* the scored account on the ledger: history, Domain, Sequence
    trust,          \* the activation of calculateTrustScore and its result
    create,         \* per visitor: the activation of the loan form's handleSubmit
    memo,           \* a text on its way through stringToHex and hexToString
    did,            \* the activation of getCurrentDIDData and its result
    page            \* per visitor: the derived data the page shows and the
                    \* requests for it that are under way

fundVars == <<db, ledger, inflight, borrowerLine, connected, userWallet, version,
              loans, fund, calls>>

scoreVars == <<account, trust>>

createVars == <<create, memo>>

pageVars == <<did, page>>

vars == <<fundVars, scoreVars, createVars, pageVars>>

NoneSent == [a \in {"RLUSD", "XRP"} |-> 0]

\* locals of one handleFundLoan activation
\*   pc            position: idle, check, sign, global, update, refresh,
\*                 catch, xrpcatch, unhandled
\*   loan          the row copy found in the UI list
\*   fundingAmount the local of that name
\*   asset         asset of the attempt in progress
\*   lookup        how the trust line check ended: none, connect_failed,
\*                 request_failed, answered
\*   method        index in methods
\*   caught        what the catch block of the method loop caught last:
\*                 none, TIMEOUT, ERROR (any other Error), NON_ERROR (a
\*                 rejection value that is no Error)
\*   error         what the outer catch caught
\*   xrpError      what the inner catch caught
\*   txHash        value the funding function returned
\*   userConfirmed answer to window.confirm (none if not asked)
\*   sent          payments handed to a signer, per asset
\*   toasts        notification titles shown
IdleFrame ==
    [pc |-> "idle", loan |-> NoLoan, fundingAmount |-> 0, asset |-> "RLUSD",
     lookup |-> "none", method |-> 1, caught |-> "none", error |-> "none",
     xrpError |-> "none",
     txHash |-> EmptyString, userConfirmed |-> "none", sent |-> NoneSent,
     toasts |-> {}]

InitCommon ==
    /\ db = NoLoan
    /\ ledger = <<>>
    /\ inflight = {}
    /\ borrowerLine \in BOOLEAN
    /\ connected = [l \in Lenders |-> FALSE]
    /\ version \in [Lenders -> Versions]
    /\ loans = [l \in Lenders |-> NoLoan]
    /\ fund = [l \in Lenders |-> IdleFrame]
    /\ calls = 0

\* ------------------------------------------------------ scored accounts
\* a transaction of the history: its type and the MemoType of its memos
TxPlain == [TransactionType |-> "Payment", Memos |-> <<>>]
TxMemo(type, tag) == [TransactionType |-> type, Memos |-> <<stringToHex(tag)>>]

\* the transactions the model places in a history of plain payments
MarkedTxs ==
    {TxMemo("AccountSet", DID_VERIFICATION), TxMemo("Payment", DID_VERIFICATION),
     TxMemo("TrustSet", DID_VERIFICATION), TxMemo("Payment", LOAN_FUNDING_XRP),
     TxPlain}

HistoryLengths == {0, 5, 10, 55, 100, MaxHistory}
SequenceNumbers == {0, 1, 49, 50, 249, 250, MaxSequence}
\* the Domain field: absent, 'microlend.did', 'example.com'
Domains == {<<>>, stringToHex(MICROLEND_DID), stringToHex(EXAMPLE_COM)}

\* a history of n transactions, newest first, the k-th being tx
HistoryOf(n, k, tx) == [i \in 1..n |-> IF i = k THEN tx ELSE TxPlain]

Accounts ==
    {[history |-> HistoryOf(n, k, tx), Domain |-> d, Sequence |-> q] :
        n \in HistoryLengths, k \in {1, MaxHistory}, tx \in MarkedTxs,
        d \in Domains, q \in SequenceNumbers}

NoAccount == [history |-> <<>>, Domain |-> <<>>, Sequence |-> 0]

\* TrustScore; accountAge 0 stands for undefined (the code stores a
\* sequence number only when it is positive)
NoResult == [score |-> 0, risk |-> "none", hasDID |-> FALSE,
             transactionCount |-> 0, accountAge |-> 0]

\* locals of calculateTrustScore
\*   pc       idle, connect, account_tx, account_info, done, threw
\*   historyOk  the account_tx request of this call succeeded
\*   infoOk     the account_info request of this call succeeded
\*   previous   what the call before this one returned, and which of its
\*              requests succeeded (returned FALSE: no call, or it threw)
NoPrevious ==
    [returned |-> FALSE, historyOk |-> FALSE, infoOk |-> FALSE,
     result |-> NoResult]

IdleTrust ==
    [pc |-> "idle", caller |-> "A", transactionCount |-> 0,
     didTransaction |-> FALSE, score |-> 0, historyOk |-> FALSE,
     infoOk |-> FALSE, result |-> NoResult, previous |-> NoPrevious]

InitScoreIdle ==
    /\ account = NoAccount
    /\ trust = IdleTrust

\* ------------------------------------------------------- the loan form
\* a number field of the form: the empty string, or a numeric string given
\* by its value in hundredths (parseFloat of the field is value / 100)
EmptyField == [text |-> "empty", value |-> 0]
NumberField(h) == [text |-> "number", value |-> h]

\* the amounts typed: 0, 0.5, 0.99, 1, 50000, 50000.01, 50001
AmountInputs == {0, 50, 99, 100, 5000000, 5000001, 5000100}
\* the interest rates typed: 0.05, 0.1, 50, 50.1
RateInputs == {5, 10, 5000, 5010}

\* formData (purpose and duration: filled or not)
FormInputs ==
    [amount : {EmptyField} \cup {NumberField(h) : h \in AmountInputs},
     interestRate : {EmptyField} \cup {NumberField(h) : h \in RateInputs},
     filled : BOOLEAN]

EmptyForm == [amount |-> EmptyField, interestRate |-> EmptyField, filled |-> FALSE]

\* MicroloanNFT: nftId, txHash and the amount of the terms
NoNFT == [nftId |-> EmptyString, txHash |-> EmptyString, amount |-> 0]

\* locals of one handleSubmit activation
\*   pc           idle, mint, seed, crossmark, insert
\*   formData     the form fields (component state, kept over a rejection)
\*   userDidVerified the prop of that name at the submit
\*   method       index in methods
\*   minted       ledger index of the NFTokenMint this call submitted, 0 if none
\*   nftData      what createMicroloanNFTUniversal returned
\*   requests     network calls made by this activation
\*   submits      number of submits so far
\*   session      how the visitor's session was made: none, created, seed,
\*                extension
\*   toasts       notification titles of the last submit
IdleCreate ==
    [pc |-> "idle", formData |-> EmptyForm, userDidVerified |-> FALSE,
     method |-> 1, minted |-> 0, nftData |-> NoNFT, requests |-> 0,
     submits |-> 0, session |-> "none", toasts |-> {}]

\* memo: a text, its wire form and the decoded wire form
IdleMemo == [pc |-> "idle", text |-> <<>>, hex |-> <<>>, decoded |-> <<>>]

InitCreateIdle ==
    /\ create = [l \in Lenders |-> IdleCreate]
    /\ memo = IdleMemo

\* ------------------------------------------------------ identity claims
\* MemoData of a memo, by what JSON.parse makes of its decoded text:
\*   json       object (parses to an object), null (parses to null),
\*              invalid (does not parse), absent (the memo has no MemoData)
\*   name, phone, timestamp
\*              the fields of the object; "" and 0 stand for a missing
\*              field as well, which || '' and || 0 turn into these values
Document(j, n, p, t) == [json |-> j, name |-> n, phone |-> p, timestamp |-> t]

ClaimOfAnn == Document("object", "Ann", "555", 1)
ClaimOfBob == Document("object", "Bob", "777", 2)
EmptyObject == Document("object", "", "", 0)
JsonNull == Document("null", "", "", 0)
Unparsable == Document("invalid", "", "", 0)
NoMemoData == Document("absent", "", "", 0)

\* hexadecimal digits of a byte that is no valid UTF-8 text
INVALID_UTF8 == <<15, 15>>

MemoWith(type, data) == [MemoType |-> type, MemoData |-> data]
DIDMemo(data) == MemoWith(stringToHex(DID_VERIFICATION), data)

HistoryEntry(type, memos) == [TransactionType |-> type, Memos |-> memos]
PlainPayment == HistoryEntry("Payment", <<>>)

\* the transactions the model places in a history
DIDTxs ==
    {PlainPayment,
     HistoryEntry("AccountSet", <<DIDMemo(ClaimOfAnn)>>),
     HistoryEntry("AccountSet", <<DIDMemo(ClaimOfBob)>>),
     HistoryEntry("AccountSet", <<DIDMemo(Unparsable)>>),
     HistoryEntry("AccountSet", <<DIDMemo(JsonNull)>>),
     HistoryEntry("AccountSet", <<DIDMemo(NoMemoData)>>),
     HistoryEntry("AccountSet", <<DIDMemo(EmptyObject)>>),
     HistoryEntry("Payment", <<DIDMemo(ClaimOfAnn)>>),
     HistoryEntry("AccountSet", <<MemoWith(stringToHex(LOAN_FUNDING_XRP), ClaimOfAnn),
                                  DIDMemo(ClaimOfBob)>>),
     HistoryEntry("AccountSet", <<DIDMemo(Unparsable), DIDMemo(ClaimOfAnn)>>),
     HistoryEntry("AccountSet", <<MemoWith(INVALID_UTF8, ClaimOfAnn)>>)}

\* limit of the account_tx request of getCurrentDIDData
DIDLimit == 50

\* histories, newest first: none or DIDLimit - 2 plain payments, then up to
\* MaxDIDTxs transactions of DIDTxs
DIDHistories ==
    {[i \in 1..k |-> PlainPayment] \o h :
        k \in {0, DIDLimit - 2},
        h \in UNION {[1..n -> DIDTxs] : n \in 0..MaxDIDTxs}}

\* the value getCurrentDIDData returns; found FALSE is null
NoClaim == [found |-> FALSE, name |-> "", phone |-> "", timestamp |-> 0]

\* locals of getCurrentDIDData: position (idle, loop, done), whether the
\* request was answered, the transactions of the answer, the loop index
IdleDID ==
    [pc |-> "idle", fetched |-> FALSE, transactions |-> <<>>, i |-> 1,
     result |-> NoClaim]

\* ------------------------------------------------ the page's user data
\* the state the page derives from the session
Kinds ==
    {"recentActivity", "hasRLUSDTrustLine", "userTrustScore", "userBalances",
     "isDIDAppliedForLoans"}

\* per visitor
\*   deps     the userWallet the user-data effect last ran for
\*   data     per kind: the wallet the shown value was fetched for,
\*            NoWallet for the cleared value ([] / false / null)
\*   pending  the requests under way: kind and the wallet they are for
IdlePage ==
    [deps |-> NoWallet, data |-> [k \in Kinds |-> NoWallet], pending |-> {}]

InitPageIdle ==
    /\ did = IdleDID
    /\ page = [l \in Lenders |-> IdlePage]

\* one connected lender with any kind of session; the other visitor has no
\* wallet
InitFund ==
    /\ InitCommon
    /\ InitScoreIdle
    /\ InitCreateIdle
    /\ InitPageIdle
    /\ userWallet \in {w \in [Lenders -> Wallets \cup {NoWallet}] :
                          w["A"] # NoWallet /\ w["B"] = NoWallet}

\* two lenders connected with their seeds
InitTable ==
    /\ InitCommon
    /\ InitScoreIdle
    /\ InitCreateIdle
    /\ InitPageIdle
    /\ userWallet = [l \in Lenders |-> SeedWallet]

\* no activation of handleFundLoan is running for the lender
Done(l) == fund[l].pc \in {"idle", "unhandled"}

\* ------------------------------------------------------------ loan table

\* handleCreateLoan -> createLoanInDB: insert of the row handleSubmit built
createLoanInDB(a) ==
    /\ db = NoLoan
    /\ db' = [amount |-> a, funded_amount |-> 0, status |-> "active",
              tx_hash |-> TxHash(0)]
    /\ UNCHANGED <<ledger, inflight, borrowerLine, connected, userWallet,
                   version, loans, fund, calls,
                   account, trust, create, memo, did, page>>

\* the page's load effect: fetchAllLoans then setLoans
fetchAllLoans(l) ==
    /\ Done(l)
    /\ loans[l] # db
    /\ loans' = [loans EXCEPT ![l] = db]
    /\ UNCHANGED <<db, ledger, inflight, borrowerLine, connected, userWallet,
                   version, fund, calls,
                   account, trust, create, memo, did, page>>

\* a writer of the shared table other than this front end closes a funded
\* loan (the row status 'completed' the pages count and render)
DatastoreCompletes ==
    /\ db.status = "funded"
    /\ db' = [db EXCEPT !.status = "completed"]
    /\ UNCHANGED <<ledger, inflight, borrowerLine, connected, userWallet,
                   version, loans, fund, calls,
                   account, trust, create, memo, did, page>>

\* ------------------------------------------------------- handleFundLoan

\* The page renders MainContent, and with it the loan cards, only for a
\* connected wallet; LoanCard shows the Fund button of a card that is not
\* the visitor's own while the copy is active and not fully funded
FundButtonShown(l) ==
    /\ userWallet[l] # NoWallet
    /\ loans[l].status = "active"
    /\ loans[l].funded_amount * 100 < 100 * loans[l].amount

\* the fundingAmount local of the two versions
FundingAmountOf(v, ln) ==
    IF v = "Index" THEN FixedFundingAmount
    ELSE Min(UnitFundingAmount, ln.amount - ln.funded_amount)

\* handleFundLoan up to the call of the funding function.
\* hasRLUSDTrustLine and userRlusdAmount are the page's state for the lender.
handleFundLoan(l, hasRLUSDTrustLine, userRlusdAmount) ==
    /\ Done(l)
    /\ calls < MaxCalls
    /\ FundButtonShown(l)
    /\ calls' = calls + 1
    /\ LET ln == loans[l]
           amt == FundingAmountOf(version[l], ln)
           start == [IdleFrame EXCEPT !.loan = ln, !.fundingAmount = amt]
           stop(t) == [IdleFrame EXCEPT !.toasts = {t}]
       IN fund' = [fund EXCEPT ![l] =
            IF userWallet[l] = NoWallet THEN stop("Wallet Required")
            ELSE IF version[l] = "Index" THEN
                IF ~hasRLUSDTrustLine THEN stop("RLUSD Trust Line Required")
                ELSE IF ln = NoLoan THEN IdleFrame
                \* Wallet.fromSeed(userWallet.seed) outside the try block
                ELSE IF userWallet[l].seed = "" THEN
                    [IdleFrame EXCEPT !.pc = "unhandled"]
                ELSE [start EXCEPT !.pc = "check",
                                   !.toasts = {"Processing RLUSD Payment"}]
            ELSE
                IF ln = NoLoan THEN stop("Loan Not Found")
                ELSE IF ~hasRLUSDTrustLine /\ ~(userRlusdAmount > 0) THEN
                    stop("RLUSD Trust Line Required")
                ELSE IF userRlusdAmount < amt THEN
                    stop("Insufficient RLUSD Balance")
                ELSE [start EXCEPT !.pc = "check",
                                   !.toasts = {"Processing RLUSD Payment"}]]
    /\ UNCHANGED <<db, ledger, inflight, borrowerLine, connected, userWallet,
                   version, loans,
                   account, trust, create, memo, did, page>>

\* handleFundLoan returns: its locals are gone, the notifications stay
Return(f) == [IdleFrame EXCEPT !.toasts = f.toasts]

\* an exception inside the funding attempt: the RLUSD attempt runs in the
\* outer try block, the XRP attempt in the inner one
Throw(f, e) ==
    IF f.asset = "RLUSD" THEN [f EXCEPT !.error = e, !.pc = "catch"]
    ELSE [f EXCEPT !.xrpError = e, !.pc = "xrpcatch"]

\* a check that reports a line whatever the ledger answers
checkTrustLineExistsAlways(requestOk, hasLine) == TRUE

\* checkTrustLineExists after its connectXRPL: the account_lines answer, or
\* false from the catch block when the request throws
checkTrustLineExists(requestOk, hasLine) ==
    IF requestOk THEN hasLine ELSE FALSE

\* fundLoanWithRLUSD / fundLoanWithRLUSDUniversal up to the trust line test:
\* connectXRPL, checkTrustLineExists, throw MISSING_TRUSTLINE
fundLoanWithRLUSDUniversal(l, connectOk, requestOk) ==
    /\ fund[l].pc = "check"
    /\ IF ~connected[l] /\ ~connectOk
       THEN /\ fund' = [fund EXCEPT ![l] =
                   Throw([@ EXCEPT !.lookup = "connect_failed"], "CONNECT_FAILED")]
            /\ UNCHANGED connected
       ELSE /\ connected' = [connected EXCEPT ![l] = TRUE]
            /\ LET hasTrustLine == checkTrustLineExists(requestOk, borrowerLine)
                   f == [fund[l] EXCEPT !.lookup =
                            IF requestOk THEN "answered" ELSE "request_failed"]
               IN fund' = [fund EXCEPT ![l] =
                     IF ~hasTrustLine THEN Throw(f, "MISSING_TRUSTLINE")
                     ELSE [f EXCEPT !.pc = "sign"]]
    /\ UNCHANGED <<db, ledger, inflight, borrowerLine, userWallet, version,
                   loans, calls,
                   account, trust, create, memo, did, page>>

\* the Payment the funding functions build
PaymentOf(l) ==
    [by |-> l, asset |-> fund[l].asset, amount |-> fund[l].fundingAmount,
     memo |-> MemoOf(fund[l].asset)]

Sent(f) == [f EXCEPT !.sent[f.asset] = @ + 1]

\* which signer the funding function uses
SignerOf(l) ==
    IF version[l] = "Index" THEN "seed"
    ELSE IF userWallet[l].callbacks THEN "callbacks"
    ELSE IF userWallet[l].seed # "" THEN "seed"
    ELSE "global"

\* a seed signer whose answer carries no hash (result.hash || '')
fundLoanWithSeedNoHash(l, ok) ==
    /\ fund[l].pc = "sign"
    /\ SignerOf(l) = "seed"
    /\ IF ok
       THEN /\ ledger' = Append(ledger, PaymentOf(l))
            /\ fund' = [fund EXCEPT ![l] =
                   [Sent(@) EXCEPT !.txHash = EmptyString, !.pc = "update"]]
       ELSE /\ fund' = [fund EXCEPT ![l] = Throw(Sent(@), "TX_FAILED")]
            /\ UNCHANGED ledger
    /\ UNCHANGED <<db, inflight, borrowerLine, connected, userWallet, version,
                   loans, calls,
                   account, trust, create, memo, did, page>>

\* client.submitAndWait with a wallet (fundLoanWithRLUSD, fundLoanWithXRP,
\* fundLoanWithSeed, fundXRPWithSeed): validated and its hash returned, or
\* the error thrown
fundLoanWithSeed(l, ok) ==
    /\ fund[l].pc = "sign"
    /\ SignerOf(l) = "seed"
    /\ IF ok
       THEN /\ ledger' = Append(ledger, PaymentOf(l))
            /\ fund' = [fund EXCEPT ![l] =
                   [Sent(@) EXCEPT !.txHash = TxHash(Len(ledger) + 1),
                                   !.pc = "update"]]
       ELSE /\ fund' = [fund EXCEPT ![l] = Throw(Sent(@), "TX_FAILED")]
            /\ UNCHANGED ledger
    /\ UNCHANGED <<db, inflight, borrowerLine, connected, userWallet, version,
                   loans, calls,
                   account, trust, create, memo, did, page>>

\* fundLoanWithCrossmark / fundXRPWithCrossmark: autofill, signTransaction,
\* submitTransaction of the session
fundLoanWithCrossmark(l, ok) ==
    /\ fund[l].pc = "sign"
    /\ SignerOf(l) = "callbacks"
    /\ IF ok
       THEN /\ ledger' = Append(ledger, PaymentOf(l))
            /\ fund' = [fund EXCEPT ![l] =
                   [Sent(@) EXCEPT !.txHash = TxHash(Len(ledger) + 1),
                                   !.pc = "update"]]
       ELSE /\ fund' = [fund EXCEPT ![l] = Throw(Sent(@), "SIGNER_FAILED")]
            /\ UNCHANGED ledger
    /\ UNCHANGED <<db, inflight, borrowerLine, connected, userWallet, version,
                   loans, calls,
                   account, trust, create, memo, did, page>>

\* fundLoanWithCrossmarkGlobal / fundXRPWithCrossmarkGlobal, entry:
\* (window as any).crossmark present or not
crossmarkGlobal(l, present) ==
    /\ fund[l].pc = "sign"
    /\ SignerOf(l) = "global"
    /\ fund' = [fund EXCEPT ![l] =
          IF present THEN [@ EXCEPT !.pc = "global", !.method = 1]
          ELSE Throw(@, "NO_CROSSMARK")]
    /\ UNCHANGED <<db, ledger, inflight, borrowerLine, connected, userWallet,
                   version, loans, calls,
                   account, trust, create, memo, did, page>>

\* index of the newest ledger payment of the account, 0 if none.  Every
\* entry of a lender's account_tx answer is a Payment of that account, so
\* the first entry the search loop looks at matches and the request limit
\* (5 or 10) never decides.
LatestBy(l, led) ==
    LET own == {i \in 1..Len(led) : led[i].by = l}
    IN IF own = {} THEN 0 ELSE CHOOSE i \in own : \A j \in own : j <= i

\* outcomes of one extension method: the property is missing; the promise
\* resolves with a hash; resolves without one; rejects with an Error;
\* rejects with a value that is no Error; the 30 s timer wins the race
Outcomes == {"unavailable", "hash", "nohash", "error", "nonerror", "timeout"}

\* one iteration of the for loop over methods (after the loop: the throw
\* 'No suitable Crossmark methods available').
\*   landed    the ledger has validated the payment when the search runs
\*   searchOk  the account_tx request of the search succeeds
fundLoanWithCrossmarkGlobal(l, outcome, landed, searchOk) ==
    /\ fund[l].pc = "global"
    /\ LET f == fund[l]
           m == f.method
           pay == PaymentOf(l)
           waiting == [pay |-> pay, id |-> <<calls, f.asset, m>>]
           next == [f EXCEPT !.method = m + 1]
       IN
       IF m > Len(methods)
       THEN /\ outcome = "unavailable" /\ landed /\ searchOk
            /\ fund' = [fund EXCEPT ![l] = Throw(f, "NO_METHOD")]
            /\ UNCHANGED <<ledger, inflight>>
       ELSE
       CASE outcome = "unavailable" ->
            /\ landed /\ searchOk
            /\ fund' = [fund EXCEPT ![l] = next]
            /\ UNCHANGED <<ledger, inflight>>
         [] outcome = "hash" ->
            /\ methods[m] # "submit" /\ landed /\ searchOk
            /\ ledger' = Append(ledger, pay)
            /\ fund' = [fund EXCEPT ![l] =
                  [Sent(f) EXCEPT !.txHash = TxHash(Len(ledger) + 1),
                                  !.pc = "update"]]
            /\ UNCHANGED inflight
         [] outcome = "nohash" ->
            /\ landed \/ Cardinality(inflight) < MaxInflight
            /\ ledger' = IF landed THEN Append(ledger, pay) ELSE ledger
            /\ inflight' = IF landed THEN inflight ELSE inflight \cup {waiting}
            /\ LET found == LatestBy(l, ledger')
               IN fund' = [fund EXCEPT ![l] =
                     IF ~searchOk THEN
                        Throw([Sent(f) EXCEPT !.caught = "ERROR"], "REQUEST_FAILED")
                     ELSE IF found > 0 THEN
                        [Sent(f) EXCEPT !.txHash = TxHash(found), !.pc = "update"]
                     ELSE IF f.asset = "XRP" /\ methods[m] # "submit" THEN
                        [Sent(f) EXCEPT !.txHash = HASH_UNKNOWN, !.pc = "update"]
                     ELSE Throw([Sent(f) EXCEPT !.caught = "ERROR"],
                                "HASH_NOT_FOUND")]
         [] outcome = "error" ->
            /\ landed /\ searchOk
            /\ fund' = [fund EXCEPT ![l] =
                  Throw([Sent(f) EXCEPT !.caught = "ERROR"], "REJECTED")]
            /\ UNCHANGED <<ledger, inflight>>
         [] outcome = "nonerror" ->
            /\ landed /\ searchOk
            /\ fund' = [fund EXCEPT ![l] = [Sent(next) EXCEPT !.caught = "NON_ERROR"]]
            /\ UNCHANGED <<ledger, inflight>>
         [] outcome = "timeout" ->
            /\ methods[m] # "submit" /\ landed /\ searchOk
            /\ Cardinality(inflight) < MaxInflight
            /\ inflight' = inflight \cup {waiting}
            /\ fund' = [fund EXCEPT ![l] = [Sent(next) EXCEPT !.caught = "TIMEOUT"]]
            /\ UNCHANGED ledger
    /\ UNCHANGED <<db, borrowerLine, connected, userWallet, version, loans,
                   calls,
                   account, trust, create, memo, did, page>>

\* a payment the extension still holds is approved and validated
ExtensionSubmits(w) ==
    /\ w \in inflight
    /\ inflight' = inflight \ {w}
    /\ ledger' = Append(ledger, w.pay)
    /\ UNCHANGED <<db, borrowerLine, connected, userWallet, version, loans,
                   fund, calls,
                   account, trust, create, memo, did, page>>

\* an increment of the amount the row holds at the time of the write
NewFundedAmountFromRow(ln, amt) == Min(db.funded_amount + amt, ln.amount)

\* the sum without the cap
NewFundedAmountUncapped(ln, amt) == ln.funded_amount + amt

\* the cap handleFundLoan applies before the update
NewFundedAmount(ln, amt) == Min(ln.funded_amount + amt, ln.amount)

\* an update that marks the row funded only when it is fully funded
updateLoanFundingWhenFull(l, ok) ==
    /\ fund[l].pc = "update"
    /\ LET f == fund[l]
           newFundedAmount == NewFundedAmount(f.loan, f.fundingAmount)
       IN IF ok
          THEN /\ db' = [db EXCEPT !.funded_amount = newFundedAmount,
                                   !.status = IF newFundedAmount >= db.amount
                                              THEN "funded" ELSE @,
                                   !.tx_hash = IF f.txHash.len > 0 THEN f.txHash
                                               ELSE @]
               /\ fund' = [fund EXCEPT ![l] = [f EXCEPT !.pc = "refresh"]]
          ELSE /\ fund' = [fund EXCEPT ![l] = Throw(f, "DB_ERROR")]
               /\ UNCHANGED db
    /\ UNCHANGED <<ledger, inflight, borrowerLine, connected, userWallet,
                   version, loans, calls,
                   account, trust, create, memo, did, page>>

\* updateLoanFunding as handleFundLoan calls it, then the success toast
updateLoanFunding(l, ok) ==
    /\ fund[l].pc = "update"
    /\ LET f == fund[l]
           newFundedAmount == NewFundedAmount(f.loan, f.fundingAmount)
       IN IF ok
          THEN /\ db' = [db EXCEPT !.funded_amount = newFundedAmount,
                                   !.status = "funded",
                                   !.tx_hash = IF f.txHash.len > 0 THEN f.txHash
                                               ELSE @]
               /\ fund' = [fund EXCEPT ![l] =
                     [f EXCEPT !.pc = "refresh",
                               !.toasts = @ \cup {IF f.asset = "RLUSD"
                                                  THEN "RLUSD Funding Successful"
                                                  ELSE "XRP Funding Successful"}]]
          ELSE /\ fund' = [fund EXCEPT ![l] = Throw(f, "DB_ERROR")]
               /\ UNCHANGED db
    /\ UNCHANGED <<ledger, inflight, borrowerLine, connected, userWallet,
                   version, loans, calls,
                   account, trust, create, memo, did, page>>

\* the reload after a funding: fetchAllLoans and setLoans inside the try
refreshLoans(l, ok) ==
    /\ fund[l].pc = "refresh"
    /\ IF ok
       THEN /\ loans' = [loans EXCEPT ![l] = db]
            /\ fund' = [fund EXCEPT ![l] = Return(@)]
       ELSE /\ fund' = [fund EXCEPT ![l] = Throw(@, "DB_ERROR")]
            /\ UNCHANGED loans
    /\ UNCHANGED <<db, ledger, inflight, borrowerLine, connected, userWallet,
                   version, calls,
                   account, trust, create, memo, did, page>>

\* a catch block that falls back to XRP without waiting for the answer
catchRLUSDAutomatic(l, answer) ==
    /\ fund[l].pc = "catch"
    /\ fund' = [fund EXCEPT ![l] =
          IF @.error = "MISSING_TRUSTLINE" THEN
             [@ EXCEPT !.userConfirmed = IF answer THEN "yes" ELSE "no",
                       !.asset = "XRP", !.pc = "sign", !.method = 1,
                       !.toasts = @ \cup {"Processing XRP Payment"}]
          ELSE Return([@ EXCEPT !.toasts = @ \cup {"RLUSD Funding Failed"}])]
    /\ answer \/ fund[l].error = "MISSING_TRUSTLINE"
    /\ UNCHANGED <<db, ledger, inflight, borrowerLine, connected, userWallet,
                   version, loans, calls,
                   account, trust, create, memo, did, page>>

\* the outer catch block: the confirmation prompt on MISSING_TRUSTLINE, the
\* failure toast otherwise
catchRLUSD(l, answer) ==
    /\ fund[l].pc = "catch"
    /\ fund' = [fund EXCEPT ![l] =
          IF @.error = "MISSING_TRUSTLINE" THEN
             IF answer THEN
                [@ EXCEPT !.userConfirmed = "yes", !.asset = "XRP",
                          !.pc = "sign", !.method = 1,
                          !.toasts = @ \cup {"Processing XRP Payment"}]
             ELSE Return(@)
          ELSE Return([@ EXCEPT !.toasts = @ \cup {"RLUSD Funding Failed"}])]
    /\ answer \/ fund[l].error = "MISSING_TRUSTLINE"
    /\ UNCHANGED <<db, ledger, inflight, borrowerLine, connected, userWallet,
                   version, loans, calls,
                   account, trust, create, memo, did, page>>

\* the inner catch block
catchXRP(l) ==
    /\ fund[l].pc = "xrpcatch"
    /\ fund' = [fund EXCEPT ![l] =
          Return([@ EXCEPT !.toasts = @ \cup {"XRP Funding Failed"}])]
    /\ UNCHANGED <<db, ledger, inflight, borrowerLine, connected, userWallet,
                   version, loans, calls,
                   account, trust, create, memo, did, page>>

\* --------------------------------------------- getAccountTransactions

\* the entry getAccountTransactions builds for a Payment of the history:
\* received or sent by the Destination, the amount of a drops string (an
\* issued-currency Amount is an object and leaves 0), the type by the memo
\* when it is one of the three the function knows
classifyPayment(address, tx) ==
    [type |-> IF tx.memo = "DID_VERIFICATION" THEN "did_verification"
              ELSE IF tx.memo = "LOAN_FUNDING" THEN "loan_funding"
              ELSE IF tx.by = address THEN "sent" ELSE "received",
     amount |-> IF tx.asset = "XRP" THEN tx.amount ELSE 0]

HistoryLimit == 10

\* getAccountTransactions: the account's newest transactions, at most 10,
\* newest first, each mapped to its entry
getAccountTransactions(address, led) ==
    LET own == SelectSeq(led, LAMBDA tx : tx.by = address)
        n == Min(HistoryLimit, Len(own))
    IN [k \in 1..n |-> classifyPayment(address, own[Len(own) + 1 - k])]

\* ------------------------------------------------- calculateTrustScore

\* an answer that ignores the limit
account_txUnlimited(acct, limit) == acct.history

\* the account_tx answer: at most limit transactions, newest first
account_tx(acct, limit) == SubSeq(acct.history, 1, Min(limit, Len(acct.history)))

\* the limit calculateTrustScore asks for
TxLimit == 100

\* memos.some(...): a memo whose decoded MemoType is DID_VERIFICATION
hasDIDMemo(tx) ==
    \E i \in 1..Len(tx.Memos) :
        /\ Len(tx.Memos[i]) > 0
        /\ hexToString(tx.Memos[i]) = DID_VERIFICATION

\* a search that takes the memo of a transaction of any type
didTransactionInAnyType(transactions) ==
    \E i \in 1..Len(transactions) : hasDIDMemo(transactions[i])

\* transactions.find(...) found a transaction
didTransactionIn(transactions) ==
    \E i \in 1..Len(transactions) :
        /\ transactions[i].TransactionType \in {"AccountSet", "Payment"}
        /\ hasDIDMemo(transactions[i])

\* the points without their cap
transactionPointsUncapped(transactionCount) == transactionCount \div 10

transactionPoints(transactionCount) == Min(transactionCount \div 10, 20)

\* the age bonus without its cap
ageBonusUncapped(sequence) == sequence \div 50

ageBonus(sequence) == Min(sequence \div 50, 5)

\* a risk level whose low bucket starts at 20
riskOfInclusive(score) ==
    IF score >= 20 THEN "low" ELSE IF score >= 10 THEN "medium" ELSE "high"

\* the risk level of a score
riskOf(score) ==
    IF score > 20 THEN "low" ELSE IF score >= 10 THEN "medium" ELSE "high"

\* the default the outer catch block returns
DefaultTrustScore ==
    [score |-> 0, risk |-> "high", hasDID |-> FALSE, transactionCount |-> 0,
     accountAge |-> 0]

\* a calculator that gives up every point when account_info fails
finishTrustScoreAllOrNothing(f, info, infoOk) ==
    IF ~infoOk THEN DefaultTrustScore
    ELSE LET hasDID == f.didTransaction \/
                       (Len(info.Domain) > 0 /\ hexToString(info.Domain) = MICROLEND_DID)
             score1 == IF info.Sequence > 0 THEN f.score + ageBonus(info.Sequence)
                       ELSE f.score
             score2 == IF hasDID THEN score1 + 10 ELSE score1
         IN [score |-> score2, risk |-> riskOf(score2), hasDID |-> hasDID,
             transactionCount |-> f.transactionCount,
             accountAge |-> IF info.Sequence > 0 THEN info.Sequence ELSE 0]

\* calculateTrustScore from the account_info try block to the return:
\* f holds the locals after the history was read, info is the account data,
\* infoOk whether the account_info request succeeded
finishTrustScore(f, info, infoOk) ==
    LET hasDomainDID ==
            /\ infoOk
            /\ Len(info.Domain) > 0
            /\ hexToString(info.Domain) = MICROLEND_DID
        sequence == IF infoOk THEN info.Sequence ELSE 0
        accountAge == IF sequence > 0 THEN sequence ELSE 0
        score1 == IF sequence > 0 THEN f.score + ageBonus(sequence) ELSE f.score
        hasDID == f.didTransaction \/ hasDomainDID
        score2 == IF hasDID THEN score1 + 10 ELSE score1
    IN [score |-> score2, risk |-> riskOf(score2), hasDID |-> hasDID,
        transactionCount |-> f.transactionCount, accountAge |-> accountAge]

\* a page calls calculateTrustScore(address)
calculateTrustScore(l) ==
    /\ trust.pc \in {"idle", "done", "threw"}
    /\ trust' = [IdleTrust EXCEPT
            !.pc = "connect", !.caller = l,
            !.previous = IF trust.pc = "done"
                         THEN [returned |-> TRUE, historyOk |-> trust.historyOk,
                               infoOk |-> trust.infoOk, result |-> trust.result]
                         ELSE NoPrevious]
    /\ UNCHANGED <<db, ledger, inflight, borrowerLine, connected, userWallet,
                   version, loans, fund, calls, account, create,
                   memo, did, page>>

\* await connectXRPL(), before the try block
connectXRPL(ok) ==
    /\ trust.pc = "connect"
    /\ IF connected[trust.caller] \/ ok
       THEN /\ connected' = [connected EXCEPT ![trust.caller] = TRUE]
            /\ trust' = [trust EXCEPT !.pc = "account_tx"]
       ELSE /\ trust' = [trust EXCEPT !.pc = "threw"]
            /\ UNCHANGED connected
    /\ UNCHANGED <<db, ledger, inflight, borrowerLine, userWallet, version,
                   loans, fund, calls, account, create,
                   memo, did, page>>

\* a calculator whose score local outlives the call
requestAccountTxAccumulating(ok) ==
    /\ trust.pc = "account_tx"
    /\ IF ok
       THEN LET transactions == account_tx(account, TxLimit)
                transactionCount == Len(transactions)
            IN trust' = [trust EXCEPT
                    !.pc = "account_info",
                    !.historyOk = TRUE,
                    !.transactionCount = transactionCount,
                    !.didTransaction = didTransactionIn(transactions),
                    !.score = trust.previous.result.score
                              + transactionPoints(transactionCount)]
       ELSE trust' = [trust EXCEPT !.pc = "done", !.result = DefaultTrustScore]
    /\ UNCHANGED <<db, ledger, inflight, borrowerLine, connected, userWallet,
                   version, loans, fund, calls, account, create,
                   memo, did, page>>

\* the account_tx request and the lines up to the account_info try block
requestAccountTx(ok) ==
    /\ trust.pc = "account_tx"
    /\ IF ok
       THEN LET transactions == account_tx(account, TxLimit)
                transactionCount == Len(transactions)
            IN trust' = [trust EXCEPT
                    !.pc = "account_info",
                    !.historyOk = TRUE,
                    !.transactionCount = transactionCount,
                    !.didTransaction = didTransactionIn(transactions),
                    !.score = transactionPoints(transactionCount)]
       ELSE trust' = [trust EXCEPT !.pc = "done", !.result = DefaultTrustScore]
    /\ UNCHANGED <<db, ledger, inflight, borrowerLine, connected, userWallet,
                   version, loans, fund, calls, account, create,
                   memo, did, page>>

\* the account_info request and the rest of the function
requestAccountInfo(ok) ==
    /\ trust.pc = "account_info"
    /\ trust' = [trust EXCEPT !.pc = "done", !.infoOk = ok,
                              !.result = finishTrustScore(trust, account, ok)]
    /\ UNCHANGED <<db, ledger, inflight, borrowerLine, connected, userWallet,
                   version, loans, fund, calls, account, create,
                   memo, did, page>>

\* the scored account, the pages not yet connected to the ledger
InitScore ==
    /\ db = NoLoan
    /\ ledger = <<>>
    /\ inflight = {}
    /\ borrowerLine = FALSE
    /\ connected = [l \in Lenders |-> FALSE]
    /\ userWallet = [l \in Lenders |-> SeedWallet]
    /\ version = [l \in Lenders |-> "part_005"]
    /\ loans = [l \in Lenders |-> NoLoan]
    /\ fund = [l \in Lenders |-> IdleFrame]
    /\ calls = 0
    /\ account \in Accounts
    /\ trust = IdleTrust
    /\ InitCreateIdle
    /\ InitPageIdle

NextScore ==
    \/ \E l \in Lenders : calculateTrustScore(l)
    \/ \E ok \in BOOLEAN : connectXRPL(ok)
    \/ \E ok \in BOOLEAN : requestAccountTx(ok)
    \/ \E ok \in BOOLEAN : requestAccountInfo(ok)

\* calculateTrustScore over the accounts of the model
SpecScore == InitScore /\ [][NextScore]_vars

\* ------------------------------------------------------------- sessions
\* the visitor who connects a wallet and fills the loan form
Borrowers == {"A"}

\* the versions of the extension connection component
ConnectionVersions == {"CrossmarkConnection", "part_004"}

\* what is typed into the seed field: nothing, a valid seed, no seed
SeedInputs == {"", "sValid", "notaseed"}

\* Wallet.fromSeed accepts the text
DecodesAsSeed(seed) == seed = "sValid"

\* no handler of the visitor is running
Quiet(l) == Done(l) /\ create[l].pc = "idle"

\* WalletCreation: createXRPLWallet answered (wallet.seed is checked to be
\* set) and the visitor continued; a failed connect ends in a toast and
\* leaves the page as it was
createXRPLWallet(l) ==
    /\ Quiet(l)
    /\ userWallet[l] = NoWallet
    /\ connected' = [connected EXCEPT ![l] = TRUE]
    /\ userWallet' = [userWallet EXCEPT ![l] = [seed |-> "sValid", callbacks |-> FALSE]]
    /\ create' = [create EXCEPT ![l].session = "created"]
    /\ UNCHANGED <<db, ledger, inflight, borrowerLine, version, loans, fund,
                   calls, account, trust, memo, did, page>>

\* a seed connection that takes the field as it is
handleConnectWithSeedUnchecked(l, seed, hasReadWarning) ==
    /\ Quiet(l)
    /\ userWallet[l] = NoWallet
    /\ connected' = [connected EXCEPT ![l] = TRUE]
    /\ userWallet' = [userWallet EXCEPT ![l] = [seed |-> seed, callbacks |-> FALSE]]
    /\ create' = [create EXCEPT ![l].session = "seed"]
    /\ UNCHANGED <<db, ledger, inflight, borrowerLine, version, loans, fund,
                   calls, account, trust, memo, did, page>>

\* SeedConnection.handleConnectWithSeed reaching onWalletConnected: the
\* field is not empty, the warning was acknowledged and Wallet.fromSeed did
\* not throw (every other path ends in a toast and leaves the page as it
\* was)
handleConnectWithSeed(l, seed, hasReadWarning) ==
    /\ Quiet(l)
    /\ userWallet[l] = NoWallet
    /\ seed # ""
    /\ hasReadWarning
    /\ DecodesAsSeed(seed)
    /\ connected' = [connected EXCEPT ![l] = TRUE]
    /\ userWallet' = [userWallet EXCEPT ![l] = [seed |-> seed, callbacks |-> FALSE]]
    /\ create' = [create EXCEPT ![l].session = "seed"]
    /\ UNCHANGED <<db, ledger, inflight, borrowerLine, version, loans, fund,
                   calls, account, trust, memo, did, page>>

\* CrossmarkConnection.handleSuccessfulConnection: seed '' in both
\* versions, the signer callbacks only in the earlier one
handleSuccessfulConnection(l, v) ==
    /\ Quiet(l)
    /\ userWallet[l] = NoWallet
    /\ connected' = [connected EXCEPT ![l] = TRUE]
    /\ userWallet' = [userWallet EXCEPT ![l] =
          IF v = "part_004" THEN CallbackWallet ELSE GlobalWallet]
    /\ create' = [create EXCEPT ![l].session = "extension"]
    /\ UNCHANGED <<db, ledger, inflight, borrowerLine, version, loans, fund,
                   calls, account, trust, memo, did, page>>

\* Index.handleLogout
handleLogout(l) ==
    /\ Quiet(l)
    /\ userWallet[l] # NoWallet
    /\ userWallet' = [userWallet EXCEPT ![l] = NoWallet]
    /\ loans' = [loans EXCEPT ![l] = NoLoan]
    /\ create' = [create EXCEPT ![l].session = "none"]
    /\ page' = [page EXCEPT ![l].data = [k \in Kinds |-> NoWallet]]
    /\ UNCHANGED <<db, ledger, inflight, borrowerLine, connected, version,
                   fund, calls, account, trust, memo, did>>

\* --------------------------------------------------------- handleSubmit
\* parseFloat of a number field, in hundredths
parseFloat(field) == field.value

\* a validation that turns away the smallest amount as well
AmountOutOfRangeStrict(amount) == amount <= 100 \/ amount > 5000000

\* amount < 1 || amount > 50000
AmountOutOfRange(amount) == amount < 100 \/ amount > 5000000

\* interestRate < 0.1 || interestRate > 50
RateOutOfRange(interestRate) == interestRate < 10 \/ interestRate > 5000

\* the handler is left: the form fields stay, the locals are gone
Settle(c, ts) ==
    [c EXCEPT !.pc = "idle", !.method = 1, !.minted = 0, !.nftData = NoNFT,
              !.toasts = ts]

\* handleSubmit up to the call of createMicroloanNFTUniversal
handleSubmit(l, fd, userDidVerified) ==
    /\ Quiet(l)
    /\ create[l].submits < MaxSubmits
    /\ LET c == [create[l] EXCEPT !.formData = fd,
                                  !.userDidVerified = userDidVerified,
                                  !.submits = @ + 1, !.requests = 0]
           stop(t) == Settle(c, {t})
       IN create' = [create EXCEPT ![l] =
            IF userWallet[l] = NoWallet THEN stop("Wallet Required")
            ELSE IF ~userDidVerified THEN stop("DID Verification Required")
            ELSE IF \/ fd.amount = EmptyField
                    \/ fd.interestRate = EmptyField
                    \/ ~fd.filled
                 THEN stop("Missing Information")
            ELSE IF AmountOutOfRange(parseFloat(fd.amount))
                 THEN stop("Invalid Amount")
            ELSE IF RateOutOfRange(parseFloat(fd.interestRate))
                 THEN stop("Invalid Interest Rate")
            ELSE [c EXCEPT !.pc = "mint", !.toasts = {"Creating Loan NFT"}]]
    /\ UNCHANGED <<db, ledger, inflight, borrowerLine, connected, userWallet,
                   version, loans, fund, calls, account, trust, memo, did, page>>

\* ------------------------------------------ createMicroloanNFTUniversal
\* ledger entries of the borrower: the NFTokenMint of a loan, the AccountSet
\* of an identity claim
MintTx(l) == [by |-> l, TransactionType |-> "NFTokenMint", memo |-> "none"]
DIDTx(l) == [by |-> l, TransactionType |-> "AccountSet", memo |-> "DID_VERIFICATION"]

\* isValidXRPLSeed: starts with s, 25 to 34 base58 characters
isValidXRPLSeed(seed) == seed = "sValid"

\* index of the newest ledger entry of the account with that type and memo,
\* 0 if none (the searches ask for the 10 newest entries; the ledgers of the
\* model are shorter)
LatestOfType(l, led, type, tag) ==
    LET own == {i \in 1..Len(led) : /\ led[i].by = l
                                    /\ led[i].TransactionType = type
                                    /\ led[i].memo = tag}
    IN IF own = {} THEN 0 ELSE CHOOSE i \in own : \A j \in own : j <= i

\* findRecentNFTMintTransaction: the newest NFTokenMint of the account
findRecentNFTMintTransaction(l, led) == LatestOfType(l, led, "NFTokenMint", "none")

\* findRecentDIDTransaction: the newest AccountSet of the account that
\* carries a DID_VERIFICATION memo
findRecentDIDTransaction(l, led) ==
    LatestOfType(l, led, "AccountSet", "DID_VERIFICATION")

\* getDIDTransactionByHash: the hash names a validated AccountSet with a
\* DID_VERIFICATION memo
getDIDTransactionByHash(i, led) ==
    /\ i \in 1..Len(led)
    /\ led[i].TransactionType = "AccountSet"
    /\ led[i].memo = "DID_VERIFICATION"

\* extractTransactionHash(response, address): the hash of the response when
\* getDIDTransactionByHash accepts it, else findRecentDIDTransaction;
\* i is the ledger index the response names (0: the response has no hash)
extractTransactionHash(i, l, led) ==
    IF i > 0 /\ getDIDTransactionByHash(i, led) THEN i
    ELSE findRecentDIDTransaction(l, led)

\* the MicroloanNFT the function returns for the transaction at index i
NFTOf(l, i) ==
    [nftId |-> TxHash(i), txHash |-> TxHash(i),
     amount |-> parseFloat(create[l].formData.amount)]

\* the catch block of handleSubmit
CreationFailed(c) == Settle(c, {"Creation Failed"})

\* createMicroloanNFTUniversal: connectXRPL, then the choice of the signer
createMicroloanNFTUniversal(l, connectOk) ==
    /\ create[l].pc = "mint"
    /\ IF ~connected[l] /\ ~connectOk
       THEN /\ create' = [create EXCEPT ![l] =
                   CreationFailed([@ EXCEPT !.requests = @ + 1])]
            /\ UNCHANGED connected
       ELSE /\ connected' = [connected EXCEPT ![l] = TRUE]
            /\ create' = [create EXCEPT ![l] =
                   [@ EXCEPT !.requests = @ + 1,
                             !.method = 1,
                             !.pc = IF /\ userWallet[l].seed # ""
                                       /\ isValidXRPLSeed(userWallet[l].seed)
                                    THEN "seed" ELSE "crossmark"]]
    /\ UNCHANGED <<db, ledger, inflight, borrowerLine, userWallet, version,
                   loans, fund, calls, account, trust, memo, did, page>>

\* the seed branch: client.submitAndWait(nftMint, { wallet })
submitNFTokenMint(l, ok) ==
    /\ create[l].pc = "seed"
    /\ IF ok
       THEN /\ ledger' = Append(ledger, MintTx(l))
            /\ create' = [create EXCEPT ![l] =
                   [@ EXCEPT !.requests = @ + 1,
                             !.minted = Len(ledger) + 1,
                             !.nftData = NFTOf(l, Len(ledger) + 1),
                             !.pc = "insert"]]
       ELSE /\ create' = [create EXCEPT ![l] =
                   CreationFailed([@ EXCEPT !.requests = @ + 1])]
            /\ UNCHANGED ledger
    /\ UNCHANGED <<db, inflight, borrowerLine, connected, userWallet, version,
                   loans, fund, calls, account, trust, memo, did, page>>

\* createMicroloanNFTWithCrossmark: the test for window.crossmark, then one
\* iteration of the loop over methods (after the loop: the throw 'No
\* suitable Crossmark methods available').
\*   outcome   of the method, as in Outcomes; absent: no window.crossmark
\*   landed    the ledger has validated the mint when the search runs
\*   searchOk  the requests of the search succeed
createMicroloanNFTWithCrossmark(l, outcome, landed, searchOk) ==
    /\ create[l].pc = "crossmark"
    /\ LET c == [create[l] EXCEPT !.requests = @ + 1]
           m == c.method
           waiting == [pay |-> MintTx(l), id |-> <<c.submits, "NFT", m>>]
           next == [c EXCEPT !.method = m + 1]
           led == IF landed THEN Append(ledger, MintTx(l)) ELSE ledger
           mine == IF landed THEN Len(ledger) + 1 ELSE 0
           return(i) == [c EXCEPT !.minted = mine, !.nftData = NFTOf(l, i),
                                  !.pc = "insert"]
       IN
       IF outcome = "absent"
       THEN /\ m = 1 /\ landed /\ searchOk
            /\ create' = [create EXCEPT ![l] = CreationFailed(create[l])]
            /\ UNCHANGED <<ledger, inflight>>
       ELSE IF m > Len(methods)
       THEN /\ outcome = "unavailable" /\ landed /\ searchOk
            /\ create' = [create EXCEPT ![l] = CreationFailed(create[l])]
            /\ UNCHANGED <<ledger, inflight>>
       ELSE
       CASE outcome = "unavailable" ->
            /\ landed /\ searchOk
            /\ create' = [create EXCEPT ![l] = [create[l] EXCEPT !.method = m + 1]]
            /\ UNCHANGED <<ledger, inflight>>
         [] outcome \in {"hash", "nohash"} ->
            /\ outcome = "hash" => (methods[m] # "submit" /\ landed)
            /\ landed \/ Cardinality(inflight) < MaxInflight
            /\ ledger' = led
            /\ inflight' = IF landed THEN inflight ELSE inflight \cup {waiting}
            /\ LET found ==
                     IF methods[m] = "submit"
                     THEN findRecentNFTMintTransaction(l, led)
                     ELSE extractTransactionHash(
                              IF outcome = "hash" THEN mine ELSE 0, l, led)
               IN create' = [create EXCEPT ![l] =
                     IF ~searchOk \/ found = 0 THEN CreationFailed(c)
                     ELSE return(found)]
         [] outcome = "error" ->
            /\ landed /\ searchOk
            /\ create' = [create EXCEPT ![l] = CreationFailed(c)]
            /\ UNCHANGED <<ledger, inflight>>
         [] outcome = "nonerror" ->
            /\ landed /\ searchOk
            /\ create' = [create EXCEPT ![l] = next]
            /\ UNCHANGED <<ledger, inflight>>
         [] outcome = "timeout" ->
            /\ methods[m] # "submit" /\ landed /\ searchOk
            /\ Cardinality(inflight) < MaxInflight
            /\ inflight' = inflight \cup {waiting}
            /\ create' = [create EXCEPT ![l] = next]
            /\ UNCHANGED ledger
    /\ UNCHANGED <<db, borrowerLine, connected, userWallet, version, loans,
                   fund, calls, account, trust, memo, did, page>>

\* handleSubmit after the mint: newLoan, onCreateLoan, the toast and the
\* form reset; Index.handleCreateLoan: the test of the fields, createLoanInDB
handleCreateLoan(l, ok) ==
    /\ create[l].pc = "insert"
    /\ LET c == [create[l] EXCEPT !.formData = EmptyForm]
           nft == create[l].nftData
           stored == nft.nftId.len > 0 /\ userWallet[l] # NoWallet /\ ok
       IN /\ create' = [create EXCEPT ![l] =
                IF stored
                THEN Settle([c EXCEPT !.requests = @ + 1],
                            {"Loan NFT Created", "Loan Created"})
                ELSE Settle(c, {"Loan NFT Created", "Error"})]
          /\ db' = IF stored
                   THEN [amount |-> nft.amount \div 100, funded_amount |-> 0,
                         status |-> "active", tx_hash |-> nft.txHash]
                   ELSE db
    /\ UNCHANGED <<ledger, inflight, borrowerLine, connected, userWallet,
                   version, loans, fund, calls, account, trust, memo, did, page>>

\* the visitor has no session, and may have made an identity claim and
\* minted a loan before
InitCreate ==
    /\ db = NoLoan
    /\ ledger \in {<<>>, <<DIDTx("A")>>, <<DIDTx("A"), MintTx("A")>>}
    /\ inflight = {}
    /\ borrowerLine = FALSE
    /\ connected = [l \in Lenders |-> FALSE]
    /\ userWallet = [l \in Lenders |-> NoWallet]
    /\ version = [l \in Lenders |-> "part_005"]
    /\ loans = [l \in Lenders |-> NoLoan]
    /\ fund = [l \in Lenders |-> IdleFrame]
    /\ calls = 0
    /\ InitScoreIdle
    /\ InitCreateIdle
    /\ InitPageIdle

NextCreate ==
    \/ \E l \in Borrowers : createXRPLWallet(l)
    \/ \E l \in Borrowers, seed \in SeedInputs, w \in BOOLEAN :
          handleConnectWithSeed(l, seed, w)
    \/ \E l \in Borrowers, v \in ConnectionVersions : handleSuccessfulConnection(l, v)
    \/ \E l \in Borrowers : handleLogout(l)
    \/ \E l \in Borrowers, fd \in FormInputs, d \in BOOLEAN : handleSubmit(l, fd, d)
    \/ \E l \in Borrowers, ok \in BOOLEAN : createMicroloanNFTUniversal(l, ok)
    \/ \E l \in Borrowers, ok \in BOOLEAN : submitNFTokenMint(l, ok)
    \/ \E l \in Borrowers, o \in Outcomes \cup {"absent"}, landed \in BOOLEAN,
          s \in BOOLEAN : createMicroloanNFTWithCrossmark(l, o, landed, s)
    \/ \E w \in inflight : ExtensionSubmits(w)
    \/ \E l \in Borrowers, ok \in BOOLEAN : handleCreateLoan(l, ok)

\* a visitor connecting a wallet and creating loans
SpecCreate == InitCreate /\ [][NextCreate]_vars

\* --------------------------------------------------------- memo texts
\* sampled printable ASCII characters: space 0 A _ z ~
Chars == {32, 48, 65, 95, 122, 126}

RECURSIVE TextsOfLength(_)
TextsOfLength(n) ==
    IF n = 0 THEN {<<>>}
    ELSE {Append(t, c) : t \in TextsOfLength(n - 1), c \in Chars}

\* the sampled texts and the tags the flows write
Texts ==
    UNION {TextsOfLength(n) : n \in 0..MaxLen}
        \cup {DID_VERIFICATION, LOAN_FUNDING_XRP, MICROLEND_DID}

InitMemo ==
    /\ InitCommon
    /\ borrowerLine = FALSE
    /\ version = [l \in Lenders |-> "part_005"]
    /\ userWallet = [l \in Lenders |-> SeedWallet]
    /\ InitScoreIdle
    /\ create = [l \in Lenders |-> IdleCreate]
    /\ InitPageIdle
    /\ \E t \in Texts : memo = [IdleMemo EXCEPT !.pc = "text", !.text = t]

\* MemoType: stringToHex(text) when a transaction is built
encodeMemo ==
    /\ memo.pc = "text"
    /\ memo' = [memo EXCEPT !.pc = "encoded", !.hex = stringToHex(memo.text)]
    /\ UNCHANGED <<fundVars, scoreVars, create, did, page>>

\* hexToString(memoType) when a transaction is read
decodeMemo ==
    /\ memo.pc = "encoded"
    /\ memo' = [memo EXCEPT !.pc = "decoded", !.decoded = hexToString(memo.hex)]
    /\ UNCHANGED <<fundVars, scoreVars, create, did, page>>

NextMemo == encodeMemo \/ decodeMemo

\* memo texts through stringToHex and hexToString
SpecMemo == InitMemo /\ [][NextMemo]_vars

\* ------------------------------------------------- transactionPoints
\* the values of the local transactionCount the expression is applied to
TransactionCounts == 0..MaxCount

InitPoints ==
    /\ InitCommon
    /\ borrowerLine = FALSE
    /\ version = [l \in Lenders |-> "part_005"]
    /\ userWallet = [l \in Lenders |-> SeedWallet]
    /\ account = NoAccount
    /\ InitCreateIdle
    /\ InitPageIdle
    /\ \E n \in TransactionCounts :
          trust = [IdleTrust EXCEPT !.pc = "count", !.transactionCount = n]

\* score += transactionPoints on a score of 0
addTransactionPoints ==
    /\ trust.pc = "count"
    /\ trust' = [trust EXCEPT !.pc = "points",
                              !.score = transactionPoints(trust.transactionCount)]
    /\ UNCHANGED <<db, ledger, inflight, borrowerLine, connected, userWallet,
                   version, loans, fund, calls, account, create,
                   memo, did, page>>

NextPoints == addTransactionPoints

\* the transaction points over transaction counts up to MaxCount
SpecPoints == InitPoints /\ [][NextPoints]_vars

\* ---------------------------------------------------- getCurrentDIDData

\* Memos.find: index of the first memo whose decoded MemoType is
\* 'DID_VERIFICATION', 0 if there is none
didMemo(tx) ==
    LET s == {k \in 1..Len(tx.Memos) :
                 hexToString(tx.Memos[k].MemoType) = DID_VERIFICATION}
    IN IF s = {} THEN 0 ELSE CHOOSE k \in s : \A j \in s : k <= j

GoOn == [returns |-> FALSE, result |-> NoClaim]
ReturnClaim(d) ==
    [returns |-> TRUE,
     result |-> [found |-> TRUE, name |-> d.name, phone |-> d.phone,
                 timestamp |-> d.timestamp]]

\* a loop body that gives up the search at a memo that does not parse
readDIDDataStopping(tx) ==
    IF tx.TransactionType # "AccountSet" \/ didMemo(tx) = 0 THEN GoOn
    ELSE LET d == tx.Memos[didMemo(tx)].MemoData
         IN IF d.json = "absent" THEN GoOn
            ELSE IF d.json = "object" THEN ReturnClaim(d)
            ELSE [returns |-> TRUE, result |-> NoClaim]

\* the body of the for loop for one transaction: the claim of an AccountSet
\* whose DID memo has MemoData that parses; JSON.parse throwing, and the
\* field read on a parsed null throwing, are caught and the loop continues
readDIDData(tx) ==
    IF tx.TransactionType # "AccountSet" \/ didMemo(tx) = 0 THEN GoOn
    ELSE LET d == tx.Memos[didMemo(tx)].MemoData
         IN IF d.json = "absent" THEN GoOn
            ELSE IF d.json = "object" THEN ReturnClaim(d)
            ELSE GoOn

\* getCurrentDIDData up to the loop: connectXRPL and the account_tx request
\* inside the try block, null from the catch block when either throws
getCurrentDIDData(connectOk, requestOk) ==
    /\ did.pc = "idle"
    /\ did' = IF connectOk /\ requestOk
              THEN [did EXCEPT !.pc = "loop", !.fetched = TRUE, !.i = 1,
                               !.transactions = account_tx(account, DIDLimit)]
              ELSE [did EXCEPT !.pc = "done", !.result = NoClaim]
    /\ UNCHANGED <<fundVars, scoreVars, createVars, page>>

\* one iteration of the loop over the transactions, or the return null
\* after it
nextDIDTransaction ==
    /\ did.pc = "loop"
    /\ did' = IF did.i > Len(did.transactions)
              THEN [did EXCEPT !.pc = "done", !.result = NoClaim]
              ELSE LET step == readDIDData(did.transactions[did.i])
                   IN IF step.returns
                      THEN [did EXCEPT !.pc = "done", !.result = step.result]
                      ELSE [did EXCEPT !.i = @ + 1]
    /\ UNCHANGED <<fundVars, scoreVars, createVars, page>>

InitDID ==
    /\ InitCommon
    /\ borrowerLine = FALSE
    /\ version = [l \in Lenders |-> "part_005"]
    /\ userWallet = [l \in Lenders |-> SeedWallet]
    /\ \E h \in DIDHistories :
          account = [history |-> h, Domain |-> <<>>, Sequence |-> 0]
    /\ trust = IdleTrust
    /\ InitCreateIdle
    /\ did = IdleDID
    /\ page = [l \in Lenders |-> IdlePage]

NextDID ==
    \/ \E connectOk \in BOOLEAN, requestOk \in BOOLEAN :
          getCurrentDIDData(connectOk, requestOk)
    \/ nextDIDTransaction

\* getCurrentDIDData over the histories of the model
SpecDID == InitDID /\ [][NextDID]_vars

\* ------------------------------------------------ the page's user data

\* the effect on [userWallet, didTransactionHash]: with a wallet it starts
\* fetchTransactions, checkRLUSDTrustLine, fetchUserTrustScore,
\* fetchUserBalances and checkDIDLoanApplicationStatus for its address
userDataEffect(l) ==
    /\ page[l].deps # userWallet[l]
    /\ page' = [page EXCEPT
          ![l].deps = userWallet[l],
          ![l].pending =
              IF userWallet[l] = NoWallet THEN @
              ELSE @ \cup {[kind |-> k, wallet |-> userWallet[l]] : k \in Kinds}]
    /\ UNCHANGED <<fundVars, scoreVars, createVars, did>>

\* what a request can end with: a value of the account, the empty value
\* ([] or false), an exception.  calculateTrustScore returns a score
\* object whenever it returns.
FetchOutcomes(kind) ==
    IF kind = "userTrustScore" THEN {"data", "throws"}
    ELSE {"data", "empty", "throws"}

\* the continuation of one of the fetch functions after its await: the
\* state setter with the value, or the catch block that logs
fetchCompletes(l, r, outcome) ==
    /\ r \in page[l].pending
    /\ outcome \in FetchOutcomes(r.kind)
    /\ page' = [page EXCEPT
          ![l].pending = @ \ {r},
          ![l].data[r.kind] =
              IF outcome = "data" THEN r.wallet
              ELSE IF outcome = "empty" THEN NoWallet
              ELSE @]
    /\ UNCHANGED <<fundVars, scoreVars, createVars, did>>

InitPage ==
    /\ InitCommon
    /\ borrowerLine = FALSE
    /\ version = [l \in Lenders |-> "part_005"]
    /\ userWallet = [l \in Lenders |-> NoWallet]
    /\ InitScoreIdle
    /\ InitCreateIdle
    /\ InitPageIdle

NextPage ==
    \/ \E l \in Borrowers, seed \in SeedInputs, w \in BOOLEAN :
          handleConnectWithSeed(l, seed, w)
    \/ \E l \in Borrowers : handleLogout(l)
    \/ \E l \in Borrowers : userDataEffect(l)
    \/ \E l \in Borrowers, k \in Kinds, w \in Wallets,
          o \in {"data", "empty", "throws"} :
          fetchCompletes(l, [kind |-> k, wallet |-> w], o)

\* a visitor connecting and logging out while the page fetches its data
SpecPage == InitPage /\ [][NextPage]_vars

\* the visitors that have the page open with a wallet connected
Connected == {l \in Lenders : userWallet[l] # NoWallet}

NextFund ==
    \/ \E a \in LoanAmounts : createLoanInDB(a)
    \/ \E l \in Connected : fetchAllLoans(l)
    \/ \E l \in Connected, tl \in BOOLEAN, bal \in {0, 1000} : handleFundLoan(l, tl, bal)
    \/ \E l \in Connected, c \in BOOLEAN, r \in BOOLEAN : fundLoanWithRLUSDUniversal(l, c, r)
    \/ \E l \in Connected, ok \in BOOLEAN : fundLoanWithSeed(l, ok)
    \/ \E l \in Connected, ok \in BOOLEAN : fundLoanWithCrossmark(l, ok)
    \/ \E l \in Connected, present \in BOOLEAN : crossmarkGlobal(l, present)
    \/ \E l \in Connected, o \in Outcomes, landed \in BOOLEAN, s \in BOOLEAN :
          fundLoanWithCrossmarkGlobal(l, o, landed, s)
    \/ \E w \in inflight : ExtensionSubmits(w)
    \/ \E l \in Connected, ok \in BOOLEAN : updateLoanFunding(l, ok)
    \/ \E l \in Connected, ok \in BOOLEAN : refreshLoans(l, ok)
    \/ \E l \in Connected, answer \in BOOLEAN : catchRLUSD(l, answer)
    \/ \E l \in Connected : catchXRP(l)

\* the operations two seed lenders can take
NextTable ==
    \/ \E a \in LoanAmounts : createLoanInDB(a)
    \/ \E l \in Lenders : fetchAllLoans(l)
    \/ DatastoreCompletes
    \/ \E l \in Lenders, tl \in BOOLEAN, bal \in {0, 1000} : handleFundLoan(l, tl, bal)
    \/ \E l \in Lenders, c \in BOOLEAN, r \in BOOLEAN : fundLoanWithRLUSDUniversal(l, c, r)
    \/ \E l \in Lenders, ok \in BOOLEAN : fundLoanWithSeed(l, ok)
    \/ \E l \in Lenders, ok \in BOOLEAN : updateLoanFunding(l, ok)
    \/ \E l \in Lenders, ok \in BOOLEAN : refreshLoans(l, ok)
    \/ \E l \in Lenders, answer \in BOOLEAN : catchRLUSD(l, answer)
    \/ \E l \in Lenders : catchXRP(l)

\* the funding flow of one lender over every signer path
Spec == InitFund /\ [][NextFund]_vars

\* the loan row under two lenders funding it concurrently
SpecTable == InitTable /\ [][NextTable]_vars

\* ================================================================ claims

\* a value in the 64 character hexadecimal format of a transaction hash
IsTxReference(v) == v.len = 64 /\ v.hex

\* position of a status in active -> funded -> completed
StatusRank(st) ==
    CASE st = "none" -> 0 [] st = "active" -> 1 [] st = "funded" -> 2
      [] st = "completed" -> 3

\* C1: after any sequence of funding operations, by one lender or by two
\* lenders interleaved, the row's funded_amount is never greater than its
\* requested amount.
C1_FundedNeverExceedsRequested == db.funded_amount <= db.amount

\* C1 witness: a payment larger than the requested amount was validated and
\* the row shows the requested amount, not the sum
C1_Witness ==
    /\ db.status = "funded"
    /\ db.funded_amount = db.amount
    /\ \E i \in 1..Len(ledger) : ledger[i].amount > db.amount

C3_MissingTrustLineRejects ==
    \A l \in Lenders :
        ~borrowerLine =>
            /\ fund[l].sent["RLUSD"] = 0
            /\ fund[l].asset = "RLUSD" => fund[l].pc \notin {"sign", "global", "update", "refresh"}
            /\ fund[l].lookup \in {"answered", "request_failed"} =>
                  fund[l].error = "MISSING_TRUSTLINE"

\* C3 witness: the ledger answered that the borrower has no line and the
\* handler is in its catch block with the signal
C3_Witness ==
    \E l \in Lenders :
        /\ ~borrowerLine
        /\ fund[l].lookup = "answered"
        /\ fund[l].pc = "catch"
        /\ fund[l].error = "MISSING_TRUSTLINE"

\* C4: MISSING_TRUSTLINE is raised only when the ledger answered the lookup
\* and the borrower's trust line is absent; a failed lookup is not reported
\* as MISSING_TRUSTLINE.
C4_MissingTrustLineOnlyWhenAbsent ==
    \A l \in Lenders :
        fund[l].error = "MISSING_TRUSTLINE" =>
            fund[l].lookup = "answered" /\ ~borrowerLine

\* C5: an XRP payment is handed to a signer only after the stablecoin
\* attempt failed with MISSING_TRUSTLINE and the user confirmed.
C5_XrpOnlyAfterConfirmation ==
    \A l \in Lenders :
        (fund[l].sent["XRP"] > 0 \/ fund[l].asset = "XRP") =>
            /\ fund[l].error = "MISSING_TRUSTLINE"
            /\ fund[l].userConfirmed = "yes"
            /\ fund[l].sent["RLUSD"] = 0

\* C5 witness: the confirmed XRP payment was validated
C5_Witness ==
    \E l \in Lenders :
        /\ fund[l].sent["XRP"] > 0
        /\ fund[l].pc = "update"
        /\ \E i \in 1..Len(ledger) : ledger[i].asset = "XRP"

\* C6: the update handleFundLoan sends after a successful payment of either
\* asset sets funded_amount to min(funded amount read + funding amount,
\* requested amount) and status to funded, fully funded or not.
C6_UpdateIsCappedSumAndFunded ==
    [][\A l \in Lenders :
         (fund[l].pc = "update" /\ fund'[l].pc = "refresh") =>
            /\ db'.funded_amount =
                  Min(fund[l].loan.funded_amount + fund[l].fundingAmount, db.amount)
            /\ db'.status = "funded"]_vars

\* C6 witness: a row marked funded below its requested amount, after an XRP
\* payment
C6_Witness ==
    /\ db.status = "funded"
    /\ 0 < db.funded_amount
    /\ db.funded_amount < db.amount
    /\ \E i \in 1..Len(ledger) : ledger[i].asset = "XRP"

C8_TrustScoreNeverThrows ==
    /\ trust.pc # "threw"
    /\ (trust.pc = "done" /\ ~trust.historyOk) => trust.result = DefaultTrustScore

\* the result of the same call had account_info succeeded
WithAccountInfo == finishTrustScore(trust, account, TRUE)

\* the age bonus of the scored account
AgeBonusOfAccount ==
    IF account.Sequence > 0 THEN Min(account.Sequence \div 50, 5) ELSE 0

\* the account's identity rests on its Domain field alone
DomainOnlyIdentity == WithAccountInfo.hasDID /\ ~trust.didTransaction

\* history read, account_info failed, the call has returned
PartialFailure == trust.pc = "done" /\ trust.historyOk /\ ~trust.infoOk

C10_ScoreIsSumOfPoints ==
    trust.pc = "done" =>
        LET r == trust.result
            activityPoints == Min(r.transactionCount \div 10, 20)
            agePoints == IF r.accountAge > 0 THEN Min(r.accountAge \div 50, 5) ELSE 0
            identityPoints == IF r.hasDID THEN 10 ELSE 0
        IN /\ r.score = activityPoints + agePoints + identityPoints
           /\ r.score >= 0
           /\ trust.infoOk =>
                 r.accountAge = (IF account.Sequence > 0 THEN account.Sequence ELSE 0)
           /\ ~trust.infoOk => r.accountAge = 0

\* C10 witness: a result in which the three kinds of points are all present
\* and the age bonus is capped
C10_Witness ==
    /\ trust.pc = "done"
    /\ trust.result.transactionCount >= 10
    /\ trust.result.accountAge > 250
    /\ trust.result.hasDID
    /\ trust.result.score = 25

\* C11: for every transactionCount the activity points are
\* min(floor(transactionCount / 10), 20): below 200 transactions the points
\* are the number of full tens, from 200 on they are 20; 199 gives 19, 200
\* gives 20 and 1000 gives 20.
C11_ActivityPointsFormula ==
    trust.pc = "points" =>
        LET n == trust.transactionCount
            p == trust.score
        IN /\ n < 200 => (10 * p <= n /\ n < 10 * p + 10)
           /\ n >= 200 => p = 20
           /\ n = 199 => p = 19
           /\ n = 200 => p = 20
           /\ n = 1000 => p = 20

\* C11 witness: the points of 1000 transactions were computed and are 20
C11_Witness ==
    /\ trust.pc = "points"
    /\ trust.transactionCount = 1000
    /\ trust.score = 20

\* C12: the risk of every returned result is low exactly when score > 20,
\* medium exactly when 10 <= score <= 20, high exactly when score < 10.
C12_RiskBuckets ==
    trust.pc = "done" =>
        LET r == trust.result
        IN /\ r.risk = "low" <=> r.score > 20
           /\ r.risk = "medium" <=> (10 <= r.score /\ r.score <= 20)
           /\ r.risk = "high" <=> r.score < 10

\* C12 witness: a computed (not default) result on the boundary score 20,
\* classified medium
C12_Witness ==
    /\ trust.pc = "done"
    /\ trust.historyOk
    /\ trust.result.score = 20
    /\ trust.result.risk = "medium"

\* the fetched part of the account's history holds an AccountSet or Payment
\* with a memo of decoded type DID_VERIFICATION
MemoClaimFetched ==
    \E i \in 1..Len(account.history) :
        /\ i <= 100
        /\ account.history[i].TransactionType \in {"AccountSet", "Payment"}
        /\ \E j \in 1..Len(account.history[i].Memos) :
              hexToString(account.history[i].Memos[j]) = DID_VERIFICATION

\* the account's Domain field decodes to microlend.did
DomainClaim == hexToString(account.Domain) = MICROLEND_DID

\* the identity points inside a computed score
IdentityPointsOf(r) ==
    r.score - Min(r.transactionCount \div 10, 20)
            - (IF r.accountAge > 0 THEN Min(r.accountAge \div 50, 5) ELSE 0)

TwoCallsReturned == trust.pc = "done" /\ trust.previous.returned

C18_MemoRoundTrip ==
    memo.pc = "decoded" => memo.decoded = memo.text

\* C18 witness: the tag DID_VERIFICATION was encoded to 32 hexadecimal
\* digits and decoded back
C18_Witness ==
    /\ memo.pc = "decoded"
    /\ memo.text = DID_VERIFICATION
    /\ Len(memo.hex) = 32
    /\ memo.decoded = DID_VERIFICATION

\* C19: the write-back of a funding is computed from the amount the lender
\* read, not from the row: after it the row holds at most that stale amount
\* plus the lender's own increment, whatever other lenders wrote since the
\* read, so two concurrent fundings can leave the row reflecting only one.
C19_WriteBackFromStaleRead ==
    [][\A l \in Lenders :
          (fund[l].pc = "update" /\ fund'[l].pc = "refresh") =>
              db'.funded_amount <= fund[l].loan.funded_amount + fund[l].fundingAmount
      ]_vars

\* C19 witness: two lenders each paid 1 unit into the same loan, both were
\* told the funding succeeded, and the row shows 1 of a larger request
C19_Witness ==
    /\ \A l \in Lenders : Done(l) /\ "RLUSD Funding Successful" \in fund[l].toasts
    /\ Len(ledger) = 2
    /\ ledger[1].by # ledger[2].by
    /\ ledger[1].amount = 1 /\ ledger[2].amount = 1
    /\ db.amount > 1
    /\ db.funded_amount = 1

\* C20: the extension flow tries the methods in their fixed order and goes
\* on to the next method only when the current one is unavailable (nothing
\* was handed to it) or timed out; when a method fails in any other way the
\* operation ends with that error and no further method is tried.
C20_NextMethodOnlyWhenUnavailableOrTimedOut ==
    [][\A l \in Lenders :
          fund[l].pc = "global" =>
              /\ (fund'[l].pc = "global" /\ fund'[l].method # fund[l].method) =>
                    /\ fund'[l].method = fund[l].method + 1
                    /\ \/ fund'[l].sent = fund[l].sent
                       \/ fund'[l].caught = "TIMEOUT"
              /\ (fund'[l].sent # fund[l].sent
                    /\ fund'[l].caught \in {"ERROR", "NON_ERROR"}) =>
                    fund'[l].pc \in {"catch", "xrpcatch"}
      ]_vars

\* the form was complete and came from a visitor with a wallet and a
\* verified identity, so that the submit reached the validation of the terms
ReachedValidation(l, c) ==
    /\ userWallet[l] # NoWallet
    /\ c.userDidVerified
    /\ c.formData.amount.text = "number"
    /\ c.formData.interestRate.text = "number"
    /\ c.formData.filled

\* C15: a submit that reaches the validation with an amount below 1 or above
\* 50000, or an interest rate below 0.1 or above 50, ends in the handler with
\* a rejection toast and without any network call (no connection, nothing
\* on the ledger or with the signer, no row written); with amount and rate
\* inside the ranges, the boundaries 1, 50000, 0.1 and 50 included, it goes
\* on to the mint.
C15_TermsValidatedBeforeNetwork ==
    [][\A l \in Lenders :
          (/\ create[l].pc = "idle"
           /\ create'[l].submits = create[l].submits + 1
           /\ ReachedValidation(l, create'[l])) =>
              LET amount == create'[l].formData.amount.value
                  rate == create'[l].formData.interestRate.value
              IN IF 100 <= amount /\ amount <= 5000000
                    /\ 10 <= rate /\ rate <= 5000
                 THEN create'[l].pc = "mint"
                 ELSE /\ create'[l].pc = "idle"
                      /\ create'[l].toasts \in {{"Invalid Amount"},
                                                {"Invalid Interest Rate"}}
                      /\ create'[l].requests = 0
                      /\ UNCHANGED <<db, ledger, inflight, connected>>
      ]_vars

\* C15 witness: amount 1 at rate 50 was accepted and the mint is about to
\* start
C15_Witness ==
    \E l \in Lenders :
        /\ create[l].pc = "mint"
        /\ create[l].formData.amount = NumberField(100)
        /\ create[l].formData.interestRate = NumberField(5000)

\* C16 as stated: every session carries a non-empty secret or signer
\* callbacks.
C16_SessionHasSecretOrCallbacks ==
    \A l \in Lenders :
        userWallet[l] # NoWallet =>
            (userWallet[l].seed # "" \/ userWallet[l].callbacks)

\* C16 amended: a session made by wallet creation or seed connection
\* carries a non-empty secret and no callbacks; a session made by the
\* extension connection carries an empty secret, with or without callbacks.
C16_SessionBySource ==
    \A l \in Lenders :
        userWallet[l] # NoWallet =>
            /\ create[l].session \in {"created", "seed"} =>
                  (userWallet[l].seed # "" /\ ~userWallet[l].callbacks)
            /\ create[l].session = "extension" => userWallet[l].seed = ""
            /\ create[l].session # "none"

\* C16 witness: an extension session with neither secret nor callbacks is
\* submitting a loan
C16_Witness ==
    \E l \in Lenders :
        /\ create[l].session = "extension"
        /\ userWallet[l].seed = ""
        /\ ~userWallet[l].callbacks
        /\ create[l].pc = "crossmark"

\* C17: when createMicroloanNFTUniversal has returned, nftId and txHash are
\* both the reference of the NFTokenMint this call submitted, and the terms
\* are the submitted ones.
C17_ReturnsOwnMintReference ==
    \A l \in Lenders :
        create[l].pc = "insert" =>
            /\ create[l].minted > 0
            /\ create[l].nftData.nftId = TxHash(create[l].minted)
            /\ create[l].nftData.txHash = TxHash(create[l].minted)
            /\ create[l].nftData.amount = create[l].formData.amount.value

\* C30: every returned result has transactionCount <= 100, at most 10
\* activity points and a score of at most 25.
C30_ScoreBoundedByFetchLimit ==
    trust.pc = "done" =>
        /\ trust.result.transactionCount <= 100
        /\ trust.result.transactionCount \div 10 <= 10
        /\ trust.result.score <= 25

\* C30 witness: an account with more than 100 transactions, a verified
\* identity and a high sequence number got transactionCount 100 and score 25
C30_Witness ==
    /\ trust.pc = "done"
    /\ Len(account.history) > 100
    /\ trust.result.transactionCount = 100
    /\ trust.result.hasDID
    /\ trust.result.score = 25

\* C28: every payment handleFundLoan submits has an amount greater than 0
\* and not greater than the remaining unfunded amount of the loan as the
\* handler read it, so that the increase written equals the amount paid.
C28_PaymentWithinRemaining ==
    \A l \in Lenders :
        fund[l].pc \in {"sign", "global", "update"} =>
            /\ fund[l].fundingAmount > 0
            /\ fund[l].fundingAmount <= fund[l].loan.amount - fund[l].loan.funded_amount
            /\ NewFundedAmount(fund[l].loan, fund[l].fundingAmount)
                 - fund[l].loan.funded_amount = fund[l].fundingAmount

\* the notifications of a failed funding
FundingFailed == {"RLUSD Funding Failed", "XRP Funding Failed"}

\* C26: when handleFundLoan has ended with a funding-failed notification, no
\* funding payment of that invocation is on the ledger (stated for the
\* lender's first invocation, whose payments are all the lender's payments).
C26_FailedMeansNothingPaid ==
    \A l \in Lenders :
        (calls = 1 /\ fund[l].pc = "idle" /\ fund[l].toasts \cap FundingFailed # {})
            => \A i \in 1..Len(ledger) : ledger[i].by # l

\* the notifications that only announce an attempt
Processing == {"Processing RLUSD Payment", "Processing XRP Payment"}

\* C23: every way handleFundLoan ends is handled: no exception escapes the
\* handler, and unless the lender declined the fallback prompt the handler
\* has shown a notification of the outcome when it returns.
C23_EveryFailureNotified ==
    [][\A l \in Lenders :
          (fund'[l] # fund[l] /\ fund'[l].pc \in {"idle", "unhandled"}) =>
              /\ fund'[l].pc = "idle"
              /\ \/ fund'[l].toasts \ Processing # {}
                 \/ fund[l].pc = "catch" /\ fund[l].error = "MISSING_TRUSTLINE"
      ]_vars

\* the ledger payments of a lender in an asset
PaymentsBy(l, a) == {i \in 1..Len(ledger) : ledger[i].by = l /\ ledger[i].asset = a}

\* C25: one invocation of an extension signer flow causes at most one
\* ledger transaction, also when a method timed out and a later method was
\* tried (stated for the lender's first invocation: one flow per asset).
C25_AtMostOneTransactionPerFlow ==
    \A l \in Lenders :
        (calls = 1 /\ userWallet[l] = GlobalWallet) =>
            \A a \in {"RLUSD", "XRP"} : Cardinality(PaymentsBy(l, a)) <= 1

\* what the catch block the activation is in has caught
ErrorOf(f) == IF f.pc = "xrpcatch" THEN f.xrpError ELSE f.error

\* C21: when the local timeout of a signer request has fired, the flow
\* either tries an alternate method or ends with an error that names the
\* timeout: a flow whose last request timed out does not end with another
\* error.
C21_TimeoutTriesAlternateOrReportsTimeout ==
    \A l \in Lenders :
        (fund[l].pc \in {"catch", "xrpcatch"} /\ fund[l].caught = "TIMEOUT")
            => ErrorOf(fund[l]) = "TIMEOUT"

\* the stablecoin payment of the attempt a fallback payment replaces
StablecoinAttempt(tx) == [tx EXCEPT !.asset = "RLUSD", !.memo = MemoOf("RLUSD")]

\* C22: the confirmed fallback payment is a base-asset payment tagged
\* LOAN_FUNDING_XRP, a tag other than the stablecoin payment's, and the
\* history classification gives it (the newest entry of the lender's
\* history) a type other than the one it gives the stablecoin payment of
\* the same attempt.
C22_FallbackDistinctInHistory ==
    \A l \in Lenders :
        LET n == Len(ledger) IN
        (n > 0 /\ ledger[n].by = l /\ ledger[n].asset = "XRP") =>
            /\ ledger[n].memo = "LOAN_FUNDING_XRP"
            /\ ledger[n].memo # StablecoinAttempt(ledger[n]).memo
            /\ getAccountTransactions(l, ledger)[1].type
                  # classifyPayment(l, StablecoinAttempt(ledger[n])).type

\* C27: after a first partial funding a further funding action on the loan
\* remains available: a lender whose page shows the current row of a
\* partly funded loan is offered the Fund button.
C27_PartFundedLoanStaysFundable ==
    \A l \in Lenders :
        (/\ db.status \in {"active", "funded"}
         /\ db.funded_amount > 0
         /\ db.funded_amount < db.amount
         /\ loans[l] = db
         /\ userWallet[l] # NoWallet) => FundButtonShown(l)

\* the transaction is a match whose claim can be read: an AccountSet whose
\* identity memo carries data that parses to an object
StructurallyValid(tx) ==
    /\ tx.TransactionType = "AccountSet"
    /\ didMemo(tx) # 0
    /\ tx.Memos[didMemo(tx)].MemoData.json = "object"

\* index of the first structurally valid match, 0 if there is none
FirstValid(txs) ==
    LET s == {k \in 1..Len(txs) : StructurallyValid(txs[k])}
    IN IF s = {} THEN 0 ELSE CHOOSE k \in s : \A j \in s : k <= j

\* C24: getCurrentDIDData walks the fetched history newest first and
\* returns the identity claim of the first structurally valid match; the
\* entries before it, among them those whose memo does not decode or
\* parse, are passed over, and without a match the answer is null.
C24_ReturnsFirstValidClaim ==
    (did.pc = "done" /\ did.fetched) =>
        /\ did.transactions
             = SubSeq(account.history, 1, Min(DIDLimit, Len(account.history)))
        /\ LET k == FirstValid(did.transactions)
           IN IF k = 0 THEN ~did.result.found
              ELSE LET d == did.transactions[k].Memos[didMemo(did.transactions[k])].MemoData
                   IN did.result = [found |-> TRUE, name |-> d.name,
                                    phone |-> d.phone, timestamp |-> d.timestamp]

\* C24 witness: the claim returned is that of the third transaction, the
\* first carries an identity memo that does not parse and the second one
\* that parses to null
C24_Witness ==
    /\ did.pc = "done"
    /\ did.result.found
    /\ did.result.name = "Bob"
    /\ Len(did.transactions) = 3
    /\ did.transactions[1] = HistoryEntry("AccountSet", <<DIDMemo(Unparsable)>>)
    /\ did.transactions[2] = HistoryEntry("AccountSet", <<DIDMemo(JsonNull)>>)
    /\ FirstValid(did.transactions) = 3

\* C29: after handleLogout the session and what the page derives from it
\* stay cleared until a new session is connected, also when a request that
\* was started before the logout completes after it.
C29_ClearedWhileLoggedOut ==
    \A l \in Lenders :
        userWallet[l] = NoWallet =>
            \A k \in Kinds : page[l].data[k] = NoWallet

====
